---- MODULE Spec2Model ----
(***************************************************************************)
(* A model of suumo-monitor: the pagination loop of scraper.py             *)
(* (SuumoScraper.fetch_all_listings / _fetch_page and the extraction pass) *)
(* the dedup store of storage.py (ListingStorage) with its transactions,   *)
(* and run of monitor.py with the notifier of notifier.py, run after run   *)
(* against a site.                                                         *)
(*                                                                         *)
(* Python strings are TLA+ strings; the empty string and None are both     *)
(* falsy in the code.  None is the value None below, NoHtml for `html`.    *)
(***************************************************************************)
EXTENDS Integers, Sequences, FiniteSets, TLC

VARIABLES
    \* ---- SuumoScraper (scraper.py) ----
    max_pages,      \* self.max_pages, set by the constructor
    pc,             \* position inside fetch_all_listings
    url,            \* local `url` of fetch_all_listings
    page_num,       \* local `page_num`
    all_listings,   \* local `all_listings`
    html,           \* local `html`: what _fetch_page returned
    log,            \* history of the call: GETs issued and sleeps slept, in order
    \* ---- ListingStorage (storage.py) and its caller ----
    table,          \* the `listings` table: listing_id -> row
    clock,          \* datetime.now(timezone.utc), a logical clock
    spc,            \* position of the store's caller
    batch,          \* the candidate list the caller holds
    new_listings,   \* what filter_new_listings returned for `batch`
    again,          \* what filter_new_listings returned for `new_listings`
    before,         \* the table as it was when the last store operation began
    ret,            \* what the last store operation returned
    \* ---- run (monitor.py) ----
    rpc,            \* position inside run
    dry_run,        \* the argument of run
    listings_found, \* local `listings_found`
    new_count,      \* local `new_count`
    error_msg,      \* local `error_msg`
    exc,            \* the exception in flight inside the try block, or None
    run_log,        \* the `run_log` table, in insertion order
    sink,           \* the calls this run made on the notifier, with their outcomes
    escaped,        \* whether an exception left the last run
    start,          \* the listings table as it was when this run began
    before_log,     \* the run_log table as it was when this run began
    applied,        \* how many statements a failed transaction had executed
    same,           \* whether this run scraped what the run before it scraped
    prev_dry_ok,    \* whether the run before this one was a dry run without error
    delisted,       \* the ids whose record delete_expired_listings removed and no save has put back
    \* ---- the site the runs scrape ----
    site,           \* the listings the site advertises, in page order
    times_new       \* listing_id -> the number of runs in which filter_new_listings returned it

fetchVars == <<max_pages, pc, url, page_num, all_listings, html, log>>
storeVars == <<table, clock, spc, batch, new_listings, again, before, ret>>
runVars == <<rpc, dry_run, listings_found, new_count, error_msg, exc, run_log,
             sink, escaped, start, before_log, applied, same, prev_dry_ok,
             delisted>>
siteVars == <<site, times_new>>
vars == <<max_pages, pc, url, page_num, all_listings, html, log,
          table, clock, spc, batch, new_listings, again, before, ret,
          rpc, dry_run, listings_found, new_count, error_msg, exc, run_log,
          sink, escaped, start, before_log, applied, same, prev_dry_ok,
          delisted, site, times_new>>

None == "<None>"

\* ------------------------------------------------------------------------
\* Bounds of the model
\* ------------------------------------------------------------------------
\* The largest page ceiling a scraper is constructed with.
MaxMaxPages == 3
\* The longest candidate batch the store's caller builds.
MaxBatch == 2
\* The last instant of the logical clock.
MaxClock == 1

\* ------------------------------------------------------------------------
\* Program constants
\* ------------------------------------------------------------------------
\* time.sleep(60) of the 429 branch.
RATE_LIMIT_COOLDOWN == 60
\* request_delay: float = 3.0, the constructor's default.
REQUEST_DELAY == 3

\* ------------------------------------------------------------------------
\* Listings
\* ------------------------------------------------------------------------
\* The dataclass Listing, cut down to the fields the store's decisions read:
\* listing_id and the four fields of the physical key.
Listing(id, room) ==
    [listing_id |-> id, address |-> room.address, unit_floor |-> room.unit_floor,
     layout |-> room.layout, area |-> room.area]

\* Texts a unit row can carry.  "3F" stands for a matched floor token, "" for
\* a row without one.  Scraped text is arbitrary, so it may hold a "|".
Rooms ==
    { [address |-> "Ebisu",  unit_floor |-> "3F", layout |-> "1K",    area |-> "25m2"],
      [address |-> "Ebisu",  unit_floor |-> "",   layout |-> "1K",    area |-> "25m2"],
      [address |-> "Ebisu",  unit_floor |-> "",   layout |-> "3F|1K", area |-> "25m2"],
      [address |-> "Ebisu|", unit_floor |-> "3F", layout |-> "1K",    area |-> "25m2"] }

ListingIds == {"jnc_1", "jnc_2"}

Listings == { Listing(id, room) : id \in ListingIds, room \in Rooms }

\* ------------------------------------------------------------------------
\* Documents and the extraction pass (scraper.py)
\* ------------------------------------------------------------------------
\* A detail link: the jnc_ token of its path and its bc query parameter,
\* either of which may be missing ("").  NoLink is a row without a usable
\* link tag or href.
NoLink == [jnc |-> "", bc |-> "", present |-> FALSE]
Href(jnc, bc) == [jnc |-> jnc, bc |-> bc, present |-> TRUE]

\* An extraction that answers "" where the code answers None.
extract_listing_id_or_empty(href) ==
    IF href.jnc # "" THEN href.jnc
    ELSE IF href.bc # "" THEN "bc_" \o href.bc
    ELSE ""

extract_listing_id(href) ==
    IF href.jnc # "" THEN href.jnc
    ELSE IF href.bc # "" THEN "bc_" \o href.bc
    ELSE None

Row(href, room) == [href |-> href, room |-> room]
Card(address, rows) == [address |-> address, rows |-> rows]

RoomOf(address, row) ==
    [address |-> address, unit_floor |-> row.room.unit_floor,
     layout |-> row.room.layout, area |-> row.room.area]

\* The rows of one card, in order: a row without a link or without an id is
\* skipped (`continue`), every other row yields one Listing.
RECURSIVE parse_rows(_, _)
parse_rows(address, rows) ==
    IF rows = <<>> THEN <<>>
    ELSE LET row == Head(rows)
             listing_id == extract_listing_id(row.href)
             rest == parse_rows(address, Tail(rows))
         IN  IF ~row.href.present THEN rest
             ELSE IF listing_id = None THEN rest
             ELSE <<Listing(listing_id, RoomOf(address, row))>> \o rest

RECURSIVE parse_cards(_)
parse_cards(cards) ==
    IF cards = <<>> THEN <<>>
    ELSE parse_rows(Head(cards).address, Head(cards).rows) \o parse_cards(Tail(cards))

parse_listings(soup) == parse_cards(soup.cards)

\* A pagination link: its label and its href ("" when the attribute is empty).
PageLink(text, href) == [text |-> text, href |-> href]

IsNextLabel(text) == text \in {"next", ">"}

\* The first pagination link labelled "next" that has an href, else None.
RECURSIVE get_next_page_url_from(_)
get_next_page_url_from(links) ==
    IF links = <<>> THEN None
    ELSE IF IsNextLabel(Head(links).text) /\ Head(links).href # ""
         THEN Head(links).href
         ELSE get_next_page_url_from(Tail(links))

get_next_page_url(soup) == get_next_page_url_from(soup.pagination)

\* A response body.  blank marks the empty string, which the loop's
\* `if not html` takes for a failed fetch.
Document(cards, pagination) ==
    [none |-> FALSE, blank |-> FALSE, cards |-> cards, pagination |-> pagination]
BlankBody == [none |-> FALSE, blank |-> TRUE, cards |-> <<>>, pagination |-> <<>>]
\* _fetch_page's None.
NoHtml == [none |-> TRUE, blank |-> TRUE, cards |-> <<>>, pagination |-> <<>>]

Urls == {"/p1", "/p2"}

RoomA == [address |-> "Ebisu", unit_floor |-> "3F", layout |-> "1K", area |-> "25m2"]
RoomB == [address |-> "Ebisu", unit_floor |-> "",   layout |-> "1K", area |-> "25m2"]

\* The pages the site can answer with.
Documents ==
    { \* two units and a next link
      Document(<<Card("Ebisu", <<Row(Href("jnc_1", ""), RoomA), Row(Href("jnc_2", "9"), RoomB)>>)>>,
               <<PageLink("prev", "/p1"), PageLink("next", "/p2")>>),
      \* a row without link, an ad row without id, a bc-only row, and a next
      \* link back to page 1
      Document(<<Card("Ebisu", <<Row(NoLink, RoomB), Row(Href("", ""), RoomB),
                                 Row(Href("", "9"), RoomA)>>)>>,
               <<PageLink(">", "/p1")>>),
      \* the last page: one unit, no next link
      Document(<<Card("Ebisu", <<Row(Href("jnc_2", ""), RoomA)>>)>>,
               <<PageLink("prev", "/p1")>>),
      \* no cards, yet a next link
      Document(<<>>, <<PageLink("next", "/p2")>>),
      \* no cards, a next link without href
      Document(<<>>, <<PageLink("next", "")>>) }

\* ------------------------------------------------------------------------
\* HTTP
\* ------------------------------------------------------------------------
\* What one session.get + raise_for_status can produce.
Ok(text) == [kind |-> "ok", status |-> 200, text |-> text]
HttpError(status) == [kind |-> "HTTPError", status |-> status, text |-> NoHtml]
NetworkError == [kind |-> "RequestException", status |-> 0, text |-> NoHtml]

Responses ==
    { Ok(d) : d \in Documents \cup {BlankBody} }
        \cup { HttpError(429), HttpError(500), NetworkError }

\* A retry on every HTTP error instead of 429 alone.
IsRateLimited_any_http_error(resp) == resp.kind = "HTTPError"

\* The `except HTTPError` test that selects the cooldown-and-retry branch.
IsRateLimited(resp) == resp.kind = "HTTPError" /\ resp.status = 429

\* History entries.
GetEvent(u, page, attempt, resp) ==
    [ev |-> "GET", url |-> u, page |-> page, attempt |-> attempt, resp |-> resp]
SleepEvent(why, secs) == [ev |-> "sleep", why |-> why, secs |-> secs]

\* Python truthiness of `url` and of `html`.
Truthy(s) == s # None /\ s # ""
HtmlTruthy(h) == ~h.none /\ ~h.blank

\* ------------------------------------------------------------------------
\* SuumoScraper.fetch_all_listings
\* ------------------------------------------------------------------------
\* A ceiling that lets one page too many through.
loop_condition_off_by_one(u, n, ceiling) == Truthy(u) /\ n <= ceiling + 1

\* A loop that goes on for as long as there is a next link.
loop_condition_without_ceiling(u, n, ceiling) == Truthy(u)

\* while url and page_num <= self.max_pages
loop_condition(u, n, ceiling) == Truthy(u) /\ n <= ceiling

\* An assignment where the code extends.
extend_overwrite(acc, page_listings) == page_listings

\* all_listings.extend(page_listings)
extend(acc, page_listings) == acc \o page_listings

\* if url: time.sleep(self.request_delay)
delay_condition(u, n, ceiling) == Truthy(u)

\* The call: all_listings = [], url = search_url, page_num = 1.
fetch_all_listings ==
    /\ pc = "idle"
    /\ \E search_url \in Urls \cup {""} :
          url' = search_url
    /\ page_num' = 1
    /\ all_listings' = <<>>
    /\ pc' = "while"
    /\ UNCHANGED <<max_pages, html, log>>

\* The loop test.
loop_test ==
    /\ pc = "while"
    /\ pc' = IF loop_condition(url, page_num, max_pages) THEN "fetch" ELSE "return"
    /\ UNCHANGED <<max_pages, url, page_num, all_listings, html, log>>

\* _fetch_page up to its first answer: the text on success, a cooldown on
\* 429, None on every other failure.
fetch_page ==
    /\ pc = "fetch"
    /\ \E resp \in Responses :
          LET got == GetEvent(url, page_num, 1, resp)
          IN  IF resp.kind = "ok"
              THEN /\ html' = resp.text
                   /\ log' = Append(log, got)
                   /\ pc' = "fetched"
              ELSE IF IsRateLimited(resp)
              THEN /\ html' = NoHtml
                   /\ log' = log \o <<got, SleepEvent("cooldown", RATE_LIMIT_COOLDOWN)>>
                   /\ pc' = "retry"
              ELSE /\ html' = NoHtml
                   /\ log' = Append(log, got)
                   /\ pc' = "fetched"
    /\ UNCHANGED <<max_pages, url, page_num, all_listings>>

\* _fetch_page after the cooldown: one more GET of the same URL, and None
\* on any RequestException.
fetch_page_retry ==
    /\ pc = "retry"
    /\ \E resp \in Responses :
          /\ html' = IF resp.kind = "ok" THEN resp.text ELSE NoHtml
          /\ log' = Append(log, GetEvent(url, page_num, 2, resp))
    /\ pc' = "fetched"
    /\ UNCHANGED <<max_pages, url, page_num, all_listings>>

\* The rest of the loop body: break on a falsy html, else parse, extend,
\* advance and sleep.
process_page ==
    /\ pc = "fetched"
    /\ IF ~HtmlTruthy(html)
       THEN /\ pc' = "return"
            /\ UNCHANGED <<url, page_num, all_listings, log>>
       ELSE LET next_url == get_next_page_url(html)
            IN  /\ all_listings' = extend(all_listings, parse_listings(html))
                /\ url' = next_url
                /\ page_num' = page_num + 1
                /\ log' = IF delay_condition(next_url, page_num + 1, max_pages)
                          THEN Append(log, SleepEvent("delay", REQUEST_DELAY))
                          ELSE log
                /\ pc' = "while"
    /\ UNCHANGED <<max_pages, html>>

\* ------------------------------------------------------------------------
\* ListingStorage (storage.py)
\* ------------------------------------------------------------------------
\* The table without rows.
EmptyTable == [id \in {} |-> {}]

\* NULL of the notified_at column: a value no hour of the clock equals.
NULL == -1

\* f"{address}|{unit_floor}|{layout}|{area}"
physical_key(l) == l.address \o "|" \o l.unit_floor \o "|" \o l.layout \o "|" \o l.area

\* One row of save_listings' `rows`.
NewRow(l, now) ==
    [listing_id |-> l.listing_id, address |-> l.address, unit_floor |-> l.unit_floor,
     layout |-> l.layout, area |-> l.area, physical_key |-> physical_key(l),
     first_seen_at |-> now, notified_at |-> NULL]

\* A row written before the unit_floor and physical_key columns existed: the
\* migration of _init_db gives it the column defaults ''.
LegacyRow(id, room) ==
    [listing_id |-> id, address |-> room.address, unit_floor |-> "",
     layout |-> room.layout, area |-> room.area, physical_key |-> "",
     first_seen_at |-> 0, notified_at |-> NULL]

\* [l.listing_id for l in listings]
ListingIdsOf(listings) == [i \in DOMAIN listings |-> listings[i].listing_id]

Range(seq) == { seq[i] : i \in DOMAIN seq }

\* is_new without the physical-key rule.
is_new_ids_only(l, known_ids, known_pkeys) == l.listing_id \notin known_ids

\* is_new without the listing_id rule.
is_new_pkeys_only(l, known_ids, known_pkeys) ==
    ~(l.unit_floor # "" /\ physical_key(l) \in known_pkeys)

\* The closure is_new of filter_new_listings.
is_new(l, known_ids, known_pkeys) ==
    IF l.listing_id \in known_ids THEN FALSE
    ELSE IF l.unit_floor # "" /\ physical_key(l) \in known_pkeys THEN FALSE
    ELSE TRUE

\* A result built back to front.
keep_prepend(result, l) == <<l>> \o result

\* result.append(l)
keep(result, l) == Append(result, l)

\* The loop over the candidates: seen_pkeys holds the keys of the candidates
\* kept so far that have a floor.
RECURSIVE filter_loop(_, _, _, _, _)
filter_loop(listings, known_ids, known_pkeys, seen_pkeys, result) ==
    IF listings = <<>> THEN result
    ELSE LET l == Head(listings)
             pk == physical_key(l)
         IN  IF ~is_new(l, known_ids, known_pkeys)
             THEN filter_loop(Tail(listings), known_ids, known_pkeys, seen_pkeys, result)
             ELSE IF l.unit_floor # "" /\ pk \in seen_pkeys
             THEN filter_loop(Tail(listings), known_ids, known_pkeys, seen_pkeys, result)
             ELSE filter_loop(Tail(listings), known_ids, known_pkeys,
                              IF l.unit_floor # "" THEN seen_pkeys \cup {pk} ELSE seen_pkeys,
                              keep(result, l))

\* Every store method maps the table and its arguments to the table it
\* commits and the value it returns.
filter_new_listings(t, listings) ==
    IF listings = <<>> THEN [table |-> t, ret |-> <<>>]
    ELSE LET ids == Range(ListingIdsOf(listings))
             pkeys == { physical_key(listings[i]) :
                            i \in { j \in DOMAIN listings : listings[j].unit_floor # "" } }
             known_ids == { id \in DOMAIN t : id \in ids }
             known_pkeys ==
                 IF pkeys # {}
                 THEN { t[id].physical_key :
                            id \in { j \in DOMAIN t : /\ t[j].physical_key \in pkeys
                                                      /\ t[j].physical_key # "" } }
                 ELSE {}
         IN  [table |-> t, ret |-> filter_loop(listings, known_ids, known_pkeys, {}, <<>>)]

\* A DELETE of the rows that are current.
is_expired_inverted(id, current_listing_ids) == id \in Range(current_listing_ids)

\* WHERE listing_id NOT IN (current_listing_ids)
is_expired(id, current_listing_ids) == id \notin Range(current_listing_ids)

\* The DELETE without the test for an empty id list before it.
delete_expired_listings_without_guard(t, current_listing_ids) ==
    LET gone == { id \in DOMAIN t : is_expired(id, current_listing_ids) }
    IN  [table |-> [id \in DOMAIN t \ gone |-> t[id]], ret |-> Cardinality(gone)]

delete_expired_listings(t, current_listing_ids) ==
    IF current_listing_ids = <<>> THEN [table |-> t, ret |-> 0]
    ELSE LET gone == { id \in DOMAIN t : is_expired(id, current_listing_ids) }
         IN  [table |-> [id \in DOMAIN t \ gone |-> t[id]], ret |-> Cardinality(gone)]

\* INSERT OR REPLACE: an existing row is overwritten.
insert_or_replace(t, row) ==
    [id \in DOMAIN t \cup {row.listing_id} |->
         IF id = row.listing_id THEN row ELSE t[id]]

\* INSERT OR IGNORE of one row.
insert_or_ignore(t, row) ==
    IF row.listing_id \in DOMAIN t THEN t
    ELSE [id \in DOMAIN t \cup {row.listing_id} |->
              IF id = row.listing_id THEN row ELSE t[id]]

\* executemany over `rows`, in order.
RECURSIVE executemany_insert(_, _)
executemany_insert(t, rows) ==
    IF rows = <<>> THEN t
    ELSE executemany_insert(insert_or_ignore(t, Head(rows)), Tail(rows))

save_listings(t, listings, now) ==
    IF listings = <<>> THEN [table |-> t, ret |-> None]
    ELSE [table |-> executemany_insert(t, [i \in DOMAIN listings |-> NewRow(listings[i], now)]),
          ret |-> None]

\* An UPDATE without its WHERE clause.
is_marked_every_row(id, listing_ids) == TRUE

\* WHERE listing_id IN (listing_ids)
is_marked(id, listing_ids) == id \in Range(listing_ids)

\* UPDATE listings SET notified_at=? WHERE listing_id IN (...)
mark_notified(t, listing_ids, now) ==
    IF listing_ids = <<>> THEN [table |-> t, ret |-> None]
    ELSE [table |-> [id \in DOMAIN t |->
                        IF is_marked(id, listing_ids)
                        THEN [t[id] EXCEPT !.notified_at = now]
                        ELSE t[id]],
          ret |-> None]

\* ------------------------------------------------------------------------
\* A caller of the store: it collects a candidate batch and calls the
\* store's methods on it, as monitor.run does with the scraped listings.
\* ------------------------------------------------------------------------
add_candidate ==
    /\ spc = "build"
    /\ Len(batch) < MaxBatch
    /\ \E l \in Listings : batch' = Append(batch, l)
    /\ UNCHANGED <<table, clock, spc, new_listings, again, before, ret>>

\* Time passes between two calls.
tick ==
    /\ \/ spc = "build" /\ batch = <<>>
       \/ spc = "stored"
    /\ clock < MaxClock
    /\ clock' = clock + 1
    /\ UNCHANGED <<table, spc, batch, new_listings, again, before, ret>>

\* new_listings = storage.filter_new_listings(all_listings)
call_filter_new_listings ==
    /\ spc = "build"
    /\ LET r == filter_new_listings(table, batch)
       IN  /\ table' = r.table
           /\ new_listings' = r.ret
           /\ ret' = r.ret
    /\ before' = table
    /\ spc' = "filtered"
    /\ UNCHANGED <<clock, batch, again>>

\* storage.save_listings(new_listings)
call_save_new_listings ==
    /\ spc = "filtered"
    /\ LET r == save_listings(table, new_listings, clock)
       IN  /\ table' = r.table
           /\ ret' = r.ret
    /\ before' = table
    /\ spc' = "saved"
    /\ UNCHANGED <<clock, batch, new_listings, again>>

\* filter_new_listings on its own earlier result
call_filter_again ==
    /\ spc = "saved"
    /\ LET r == filter_new_listings(table, new_listings)
       IN  /\ table' = r.table
           /\ again' = r.ret
           /\ ret' = r.ret
    /\ before' = table
    /\ spc' = "refiltered"
    /\ UNCHANGED <<clock, batch, new_listings>>

\* storage.save_listings(listings) on a batch of the caller's choice
call_save_listings ==
    /\ spc = "build"
    /\ LET r == save_listings(table, batch, clock)
       IN  /\ table' = r.table
           /\ ret' = r.ret
    /\ before' = table
    /\ spc' = "stored"
    /\ UNCHANGED <<clock, batch, new_listings, again>>

\* storage.delete_expired_listings([l.listing_id for l in all_listings])
call_delete_expired_listings ==
    /\ spc = "build"
    /\ LET r == delete_expired_listings(table, ListingIdsOf(batch))
       IN  /\ table' = r.table
           /\ ret' = r.ret
    /\ before' = table
    /\ spc' = "deleted"
    /\ UNCHANGED <<clock, batch, new_listings, again>>

\* The same listing with its floor token found or not, or with another
\* address text.
RoomD == [address |-> "Ebisu|", unit_floor |-> "3F", layout |-> "1K", area |-> "25m2"]
OpsListings == { Listing(id, room) : id \in ListingIds, room \in {RoomA, RoomB, RoomD} }

\* The caller of save_listings and mark_notified collects its batch.
add_listing ==
    /\ spc = "build"
    /\ Len(batch) < MaxBatch
    /\ \E l \in OpsListings : batch' = Append(batch, l)
    /\ UNCHANGED <<table, clock, spc, new_listings, again, before, ret>>

\* storage.save_listings(listings) a second time, on the same batch
call_save_listings_again ==
    /\ spc = "stored"
    /\ LET r == save_listings(table, batch, clock)
       IN  /\ table' = r.table
           /\ ret' = r.ret
    /\ before' = table
    /\ spc' = "stored_again"
    /\ UNCHANGED <<clock, batch, new_listings, again>>

\* storage.mark_notified([l.listing_id for l in new_listings])
call_mark_notified ==
    /\ spc = "build"
    /\ LET r == mark_notified(table, ListingIdsOf(batch), clock)
       IN  /\ table' = r.table
           /\ ret' = r.ret
    /\ before' = table
    /\ spc' = "marked"
    /\ UNCHANGED <<clock, batch, new_listings, again>>

\* The caller drops what it holds and starts on the next batch.
next_batch ==
    /\ spc \in {"filtered", "saved", "refiltered", "stored", "stored_again", "marked", "deleted"}
    /\ spc' = "build"
    /\ batch' = <<>>
    /\ new_listings' = <<>>
    /\ again' = <<>>
    /\ before' = EmptyTable
    /\ ret' = None
    /\ UNCHANGED <<table, clock>>

\* The tables a store can be opened on: a new database, or one written
\* before the migration.
InitialTables ==
    {EmptyTable} \cup
        { [id \in {"jnc_1"} |-> LegacyRow(id, room)] :
              room \in { r \in Rooms : r.unit_floor = "" } }

\* An opened store and an idle scraper.
InitStore ==
    /\ table \in InitialTables
    /\ clock = 0
    /\ spc = "build"
    /\ batch = <<>>
    /\ new_listings = <<>>
    /\ again = <<>>
    /\ before = EmptyTable
    /\ ret = None
    /\ max_pages = 0
    /\ pc = "off"
    /\ url = None
    /\ page_num = 1
    /\ all_listings = <<>>
    /\ html = NoHtml
    /\ log = <<>>
    /\ rpc = "off"
    /\ dry_run = FALSE
    /\ listings_found = 0
    /\ new_count = 0
    /\ error_msg = None
    /\ exc = None
    /\ run_log = <<>>
    /\ sink = <<>>
    /\ escaped = FALSE
    /\ start = EmptyTable
    /\ before_log = <<>>
    /\ applied = 0
    /\ same = FALSE
    /\ prev_dry_ok = FALSE
    /\ delisted = {}
    /\ site = <<>>
    /\ times_new = [id \in ListingIds |-> 0]

NextStore ==
    \/ add_candidate /\ UNCHANGED <<fetchVars, runVars, siteVars>>
    \/ tick /\ UNCHANGED <<fetchVars, runVars, siteVars>>
    \/ call_filter_new_listings /\ UNCHANGED <<fetchVars, runVars, siteVars>>
    \/ call_save_new_listings /\ UNCHANGED <<fetchVars, runVars, siteVars>>
    \/ call_filter_again /\ UNCHANGED <<fetchVars, runVars, siteVars>>
    \/ call_save_listings /\ UNCHANGED <<fetchVars, runVars, siteVars>>
    \/ call_delete_expired_listings /\ UNCHANGED <<fetchVars, runVars, siteVars>>
    \/ next_batch /\ UNCHANGED <<fetchVars, runVars, siteVars>>

SpecStore == InitStore /\ [][NextStore]_vars

\* The store's methods called one at a time, save_listings twice in a row
\* and mark_notified among them.
NextOps ==
    \/ add_listing /\ UNCHANGED <<fetchVars, runVars, siteVars>>
    \/ tick /\ UNCHANGED <<fetchVars, runVars, siteVars>>
    \/ call_filter_new_listings /\ UNCHANGED <<fetchVars, runVars, siteVars>>
    \/ call_save_listings /\ UNCHANGED <<fetchVars, runVars, siteVars>>
    \/ call_save_listings_again /\ UNCHANGED <<fetchVars, runVars, siteVars>>
    \/ call_mark_notified /\ UNCHANGED <<fetchVars, runVars, siteVars>>
    \/ call_delete_expired_listings /\ UNCHANGED <<fetchVars, runVars, siteVars>>
    \/ next_batch /\ UNCHANGED <<fetchVars, runVars, siteVars>>

SpecOps == InitStore /\ [][NextOps]_vars

\* A constructed scraper, before the call; the store is left alone.
InitFetch ==
    /\ max_pages \in 0..MaxMaxPages
    /\ pc = "idle"
    /\ url = None
    /\ page_num = 1
    /\ all_listings = <<>>
    /\ html = NoHtml
    /\ log = <<>>
    /\ table = EmptyTable
    /\ clock = 0
    /\ spc = "off"
    /\ batch = <<>>
    /\ new_listings = <<>>
    /\ again = <<>>
    /\ before = EmptyTable
    /\ ret = None
    /\ rpc = "off"
    /\ dry_run = FALSE
    /\ listings_found = 0
    /\ new_count = 0
    /\ error_msg = None
    /\ exc = None
    /\ run_log = <<>>
    /\ sink = <<>>
    /\ escaped = FALSE
    /\ start = EmptyTable
    /\ before_log = <<>>
    /\ applied = 0
    /\ same = FALSE
    /\ prev_dry_ok = FALSE
    /\ delisted = {}
    /\ site = <<>>
    /\ times_new = [id \in ListingIds |-> 0]

NextFetch ==
    \/ fetch_all_listings /\ UNCHANGED <<storeVars, runVars, siteVars>>
    \/ loop_test /\ UNCHANGED <<storeVars, runVars, siteVars>>
    \/ fetch_page /\ UNCHANGED <<storeVars, runVars, siteVars>>
    \/ fetch_page_retry /\ UNCHANGED <<storeVars, runVars, siteVars>>
    \/ process_page /\ UNCHANGED <<storeVars, runVars, siteVars>>

SpecFetch == InitFetch /\ [][NextFetch]_vars

\* The call as the interpreter runs it: a statement that can run does run;
\* every GET has a timeout and every sleep is finite.
SpecFetchFair == InitFetch /\ [][NextFetch]_vars /\ WF_vars(NextFetch)

\* ------------------------------------------------------------------------
\* run (monitor.py), its notifier (notifier.py) and the store's transactions
\* ------------------------------------------------------------------------
\* A transaction that keeps what it had executed when its body raised.
conn_rollback_keeps_work(committed, working) == working
\* _conn's `except Exception: conn.rollback(); raise`
conn_rollback(committed, working) == committed

RoomC == [address |-> "Ebisu", unit_floor |-> "", layout |-> "3F|1K", area |-> "25m2"]

\* What fetch_all_listings can hand to run.
Scrapes ==
    { <<>>,
      <<Listing("jnc_1", RoomA)>>,
      \* one unit under two ids
      <<Listing("jnc_1", RoomA), Listing("jnc_2", RoomA)>>,
      \* two units whose floor was not found
      <<Listing("jnc_1", RoomB), Listing("jnc_2", RoomB)>>,
      \* one id on two rows
      <<Listing("jnc_2", RoomD), Listing("jnc_2", RoomA)>>,
      \* a known id with another address, the other id gone
      <<Listing("jnc_1", RoomD)>>,
      \* one unit under two ids, the other way round
      <<Listing("jnc_2", RoomA), Listing("jnc_1", RoomA)>>,
      \* a unit without floor whose key reads as that of RoomD
      <<Listing("jnc_2", RoomC)>> }

\* How a call on the notifier can end: every channel returned True, a
\* channel caught its error and returned False, or an exception that no
\* channel catches left the call.
Outcomes == {"delivered", "failed", "raised"}
SinkCall(op, outcome) == [op |-> op, outcome |-> outcome]

\* A dry run that goes on to mark_notified.
after_save_marks_always(dry) == "mark"
\* `if new_listings:` and `if not dry_run:`
after_filter(new, dry) ==
    IF new = <<>> THEN "finally" ELSE IF ~dry THEN "notify" ELSE "save"
\* The statement after save_listings in either branch.
after_save(dry) == IF dry THEN "finally" ELSE "mark"

\* One row of run_log.
RunRecord(found, new, error) ==
    [listings_found |-> found, new_listings |-> new, error |-> error]

\* run is entered: the locals before the try block.  A run after another
\* begins at a later hour.
run_start ==
    /\ rpc \in {"idle", "done"}
    /\ IF rpc = "done"
       THEN clock < MaxClock /\ clock' = clock + 1
       ELSE clock' = clock
    /\ \E d \in BOOLEAN : dry_run' = d
    /\ listings_found' = 0
    /\ new_count' = 0
    /\ error_msg' = None
    /\ exc' = None
    /\ sink' = <<>>
    /\ escaped' = FALSE
    /\ start' = table
    /\ before_log' = run_log
    /\ applied' = 0
    /\ same' = FALSE
    /\ new_listings' = <<>>
    /\ before' = table
    /\ ret' = None
    /\ rpc' = "fetch"
    /\ UNCHANGED <<table, all_listings, run_log, prev_dry_ok, delisted>>

\* all_listings = scraper.fetch_all_listings(...); listings_found = len(...),
\* the call returning one of `results` or raising.
run_fetch_from(results) ==
    /\ rpc = "fetch"
    /\ \/ \E ls \in results :
             /\ all_listings' = ls
             /\ same' = (ls = all_listings)
             /\ listings_found' = Len(ls)
             /\ rpc' = "delete"
             /\ exc' = exc
       \/ /\ exc' = "fetch"
          /\ rpc' = "except"
          /\ UNCHANGED <<all_listings, same, listings_found>>
    /\ UNCHANGED <<table, clock, new_listings, before, ret, dry_run, new_count,
                   error_msg, run_log, sink, escaped, start, before_log, applied,
                   prev_dry_ok, delisted>>

run_fetch == run_fetch_from(Scrapes)

\* expired_count = storage.delete_expired_listings(current_ids)
run_delete_expired_listings ==
    /\ rpc = "delete"
    /\ before' = table
    /\ LET current_ids == ListingIdsOf(all_listings)
           r == delete_expired_listings(table, current_ids)
       IN  \/ /\ table' = r.table
              /\ ret' = r.ret
              /\ delisted' = delisted \cup (DOMAIN table \ DOMAIN r.table)
              /\ rpc' = "filter"
              /\ UNCHANGED <<exc, applied>>
           \* the DELETE raised, or the commit after it did
           \/ /\ current_ids # <<>>
              /\ \E k \in 0..1 :
                    /\ table' = conn_rollback(table, IF k = 1 THEN r.table ELSE table)
                    /\ applied' = k
              /\ exc' = "delete"
              /\ rpc' = "except"
              /\ UNCHANGED <<ret, delisted>>
    /\ UNCHANGED <<all_listings, clock, new_listings, dry_run, listings_found,
                   new_count, error_msg, run_log, sink, escaped, start, before_log,
                   same, prev_dry_ok>>

\* new_listings = storage.filter_new_listings(all_listings); new_count = len(...)
run_filter_new_listings ==
    /\ rpc = "filter"
    /\ before' = table
    /\ LET r == filter_new_listings(table, all_listings)
       IN  \/ /\ table' = r.table
              /\ new_listings' = r.ret
              /\ new_count' = Len(r.ret)
              /\ rpc' = after_filter(r.ret, dry_run)
              /\ exc' = exc
           \/ /\ all_listings # <<>>
              /\ exc' = "filter"
              /\ rpc' = "except"
              /\ UNCHANGED <<table, new_listings, new_count>>
    /\ UNCHANGED <<all_listings, clock, ret, dry_run, listings_found, error_msg,
                   run_log, sink, escaped, start, before_log, applied, same,
                   prev_dry_ok, delisted>>

\* notifier.notify(new_listings): line, slack, email in turn.
run_notify ==
    /\ rpc = "notify"
    /\ \E o \in Outcomes :
          /\ sink' = Append(sink, SinkCall("notify", o))
          /\ IF o = "raised"
             THEN exc' = "notify" /\ rpc' = "except"
             ELSE exc' = exc /\ rpc' = "save"
    /\ UNCHANGED <<table, all_listings, clock, new_listings, before, ret, dry_run,
                   listings_found, new_count, error_msg, run_log, escaped, start,
                   before_log, applied, same, prev_dry_ok, delisted>>

\* storage.save_listings(new_listings), in either branch.
run_save_listings ==
    /\ rpc = "save"
    /\ before' = table
    /\ \/ LET r == save_listings(table, new_listings, clock)
          IN  /\ table' = r.table
              /\ ret' = r.ret
              /\ delisted' = delisted \ DOMAIN r.table
              /\ rpc' = after_save(dry_run)
              /\ UNCHANGED <<exc, applied>>
       \* executemany raised after k rows, or the commit after all of them did
       \/ /\ \E k \in 0..Len(new_listings) :
                /\ table' = conn_rollback(table,
                                 save_listings(table, SubSeq(new_listings, 1, k), clock).table)
                /\ applied' = k
          /\ exc' = "save"
          /\ rpc' = "except"
          /\ UNCHANGED <<ret, delisted>>
    /\ UNCHANGED <<all_listings, clock, new_listings, dry_run, listings_found,
                   new_count, error_msg, run_log, sink, escaped, start, before_log,
                   same, prev_dry_ok>>

\* storage.mark_notified([l.listing_id for l in new_listings])
run_mark_notified ==
    /\ rpc = "mark"
    /\ before' = table
    /\ LET r == mark_notified(table, ListingIdsOf(new_listings), clock)
       IN  \/ /\ table' = r.table
              /\ ret' = r.ret
              /\ rpc' = "finally"
              /\ UNCHANGED <<exc, applied>>
           \* the UPDATE raised, or the commit after it did
           \/ /\ \E k \in 0..1 :
                    /\ table' = conn_rollback(table, IF k = 1 THEN r.table ELSE table)
                    /\ applied' = k
              /\ exc' = "mark"
              /\ rpc' = "except"
              /\ ret' = ret
    /\ UNCHANGED <<all_listings, clock, new_listings, dry_run, listings_found,
                   new_count, error_msg, run_log, sink, escaped, start, before_log,
                   same, prev_dry_ok, delisted>>

\* except Exception as e: error_msg = str(e); notify_error unless dry_run,
\* whatever notify_error raises being passed over.
run_except ==
    /\ rpc = "except"
    /\ error_msg' = exc
    /\ exc' = None
    /\ applied' = 0
    /\ IF ~dry_run
       THEN \E o \in Outcomes : sink' = Append(sink, SinkCall("notify_error", o))
       ELSE sink' = sink
    /\ rpc' = "finally"
    /\ UNCHANGED <<table, all_listings, clock, new_listings, before, ret, dry_run,
                   listings_found, new_count, run_log, escaped, start, before_log,
                   same, prev_dry_ok, delisted>>

\* finally: storage.log_run(listings_found, new_count, error=error_msg)
run_log_run ==
    /\ rpc = "finally"
    /\ LET logged == Append(run_log, RunRecord(listings_found, new_count, error_msg))
       IN  \/ /\ run_log' = logged
              /\ UNCHANGED <<escaped, applied>>
           \* the INSERT raised, or the commit after it did; nothing catches it
           \/ /\ \E k \in 0..1 :
                    /\ run_log' = conn_rollback(run_log, IF k = 1 THEN logged ELSE run_log)
                    /\ applied' = k
              /\ escaped' = TRUE
    /\ before' = table
    /\ prev_dry_ok' = (dry_run /\ error_msg = None)
    /\ rpc' = "done"
    /\ UNCHANGED <<table, all_listings, clock, new_listings, ret, dry_run,
                   listings_found, new_count, error_msg, exc, sink, start,
                   before_log, same, delisted>>

\* The variables run does not use.
idleVars == <<max_pages, pc, url, page_num, html, log, spc, batch, again>>

\* An opened store, a built notifier, and run about to be called.
InitRun ==
    /\ table \in InitialTables
    /\ clock = 0
    /\ spc = "off"
    /\ batch = <<>>
    /\ new_listings = <<>>
    /\ again = <<>>
    /\ before = EmptyTable
    /\ ret = None
    /\ max_pages = 0
    /\ pc = "off"
    /\ url = None
    /\ page_num = 1
    /\ all_listings = <<>>
    /\ html = NoHtml
    /\ log = <<>>
    /\ rpc = "idle"
    /\ dry_run = FALSE
    /\ listings_found = 0
    /\ new_count = 0
    /\ error_msg = None
    /\ exc = None
    /\ run_log = <<>>
    /\ sink = <<>>
    /\ escaped = FALSE
    /\ start = EmptyTable
    /\ before_log = <<>>
    /\ applied = 0
    /\ same = FALSE
    /\ prev_dry_ok = FALSE
    /\ delisted = {}
    /\ site = <<>>
    /\ times_new = [id \in ListingIds |-> 0]

NextRun ==
    \/ run_start /\ UNCHANGED <<idleVars, siteVars>>
    \/ run_fetch /\ UNCHANGED <<idleVars, siteVars>>
    \/ run_delete_expired_listings /\ UNCHANGED <<idleVars, siteVars>>
    \/ run_filter_new_listings /\ UNCHANGED <<idleVars, siteVars>>
    \/ run_notify /\ UNCHANGED <<idleVars, siteVars>>
    \/ run_save_listings /\ UNCHANGED <<idleVars, siteVars>>
    \/ run_mark_notified /\ UNCHANGED <<idleVars, siteVars>>
    \/ run_except /\ UNCHANGED <<idleVars, siteVars>>
    \/ run_log_run /\ UNCHANGED <<idleVars, siteVars>>

SpecRun == InitRun /\ [][NextRun]_vars

\* What a site advertises while the runs go on: two units, with or without
\* a floor token.
Sites ==
    { <<Listing("jnc_1", RoomA), Listing("jnc_2", RoomD)>>,
      <<Listing("jnc_1", RoomB), Listing("jnc_2", RoomB)>> }

\* What fetch_all_listings returns of a site: all its pages, or the pages
\* before the one whose fetch failed (`break`).
Prefixes(listings) == { SubSeq(listings, 1, n) : n \in 0..Len(listings) }

\* The counts after a filter_new_listings that returned `result`.
CountNew(counts, result) ==
    [id \in DOMAIN counts |->
         IF \E k \in DOMAIN result : result[k].listing_id = id
         THEN counts[id] + 1
         ELSE counts[id]]

\* A new database, a built notifier, a site, and run about to be called.
InitSite ==
    /\ table = EmptyTable
    /\ clock = 0
    /\ spc = "off"
    /\ batch = <<>>
    /\ new_listings = <<>>
    /\ again = <<>>
    /\ before = EmptyTable
    /\ ret = None
    /\ max_pages = 0
    /\ pc = "off"
    /\ url = None
    /\ page_num = 1
    /\ all_listings = <<>>
    /\ html = NoHtml
    /\ log = <<>>
    /\ rpc = "idle"
    /\ dry_run = FALSE
    /\ listings_found = 0
    /\ new_count = 0
    /\ error_msg = None
    /\ exc = None
    /\ run_log = <<>>
    /\ sink = <<>>
    /\ escaped = FALSE
    /\ start = EmptyTable
    /\ before_log = <<>>
    /\ applied = 0
    /\ same = FALSE
    /\ prev_dry_ok = FALSE
    /\ delisted = {}
    /\ site \in Sites
    /\ times_new = [id \in ListingIds |-> 0]

\* Runs one after another against the same site.
NextSite ==
    \/ run_start /\ UNCHANGED <<idleVars, siteVars>>
    \/ run_fetch_from(Prefixes(site)) /\ UNCHANGED <<idleVars, siteVars>>
    \/ run_delete_expired_listings /\ UNCHANGED <<idleVars, siteVars>>
    \/ /\ run_filter_new_listings
       /\ times_new' = IF rpc' = "except" THEN times_new
                                          ELSE CountNew(times_new, new_listings')
       /\ UNCHANGED <<idleVars, site>>
    \/ run_notify /\ UNCHANGED <<idleVars, siteVars>>
    \/ run_save_listings /\ UNCHANGED <<idleVars, siteVars>>
    \/ run_mark_notified /\ UNCHANGED <<idleVars, siteVars>>
    \/ run_except /\ UNCHANGED <<idleVars, siteVars>>
    \/ run_log_run /\ UNCHANGED <<idleVars, siteVars>>

SpecSite == InitSite /\ [][NextSite]_vars

\* ------------------------------------------------------------------------
\* Properties of the pagination loop
\* ------------------------------------------------------------------------
LogIdx == 1..Len(log)
IsGet(e) == e.ev = "GET"
IsDelay(e) == e.ev = "sleep" /\ e.why = "delay"
IsCooldown(e) == e.ev = "sleep" /\ e.why = "cooldown"
\* A GET after which _fetch_page returns None.
FetchFailed(e) ==
    /\ IsGet(e)
    /\ e.resp.kind # "ok"
    /\ (e.attempt = 2 \/ e.resp.status # 429)
\* The loop iterations that fetched a page URL.
Iterations == { i \in LogIdx : IsGet(log[i]) /\ log[i].attempt = 1 }

\* The extractions of the documents the GETs of a history returned, in order.
RECURSIVE ExtractionsOf(_)
ExtractionsOf(history) ==
    IF history = <<>> THEN <<>>
    ELSE LET e == Head(history)
         IN  (IF IsGet(e) /\ e.resp.kind = "ok" THEN parse_listings(e.resp.text) ELSE <<>>)
                 \o ExtractionsOf(Tail(history))

\* C1: one call of fetch_all_listings runs at most max_pages loop iterations
\* that fetch a page URL, whatever the start URL and the document chain.
C1_AtMostMaxPages == Cardinality(Iterations) <= max_pages

\* The ceiling stops a chain that still reports a next link.
C1_Witness ==
    /\ pc = "return"
    /\ max_pages >= 2
    /\ Cardinality(Iterations) = max_pages
    /\ Truthy(url)

\* C2: the inter-page delay is slept only when another loop iteration will
\* run: once the call has returned, every delay in the history is followed by
\* the GET of the next page (so max_pages = 2 with a chain that always has a
\* next link sleeps exactly one delay).
C2_DelayOnlyBeforeNextPage ==
    pc = "return" =>
        \A i \in LogIdx :
            IsDelay(log[i]) => (i < Len(log) /\ IsGet(log[i + 1]))

\* C3: the returned list is the concatenation, in fetch order, of the
\* extractions of the pages fetched successfully; a failed fetch is the last
\* thing the call does before it returns what it has accumulated.
C3_ConcatenationOfFetchedPages ==
    /\ pc # "fetched" => all_listings = ExtractionsOf(log)
    /\ \A i \in LogIdx :
          FetchFailed(log[i]) => (i = Len(log) /\ pc \in {"fetched", "return"})

\* A first page was extracted, the second fetch failed, and the call returned
\* the first page's listings.
C3_Witness ==
    /\ pc = "return"
    /\ all_listings # <<>>
    /\ Len(log) >= 2
    /\ FetchFailed(log[Len(log)])

\* C4: a 429 on the first GET of a page is followed by one 60-unit cooldown
\* and one retry of the same URL; a page gets at most two GETs; a successful
\* retry continues the loop with its document, a failed retry (a second 429
\* included) ends the loop; no other failure is retried.
C4_RetryOnceOn429Only ==
    /\ \A i \in LogIdx :
          LET e == log[i]
          IN  /\ (IsGet(e) /\ e.attempt = 1 /\ e.resp.kind # "ok" /\ e.resp.status = 429) =>
                    /\ i < Len(log)
                    /\ log[i + 1] = SleepEvent("cooldown", 60)
                    /\ IF i + 1 < Len(log)
                       THEN /\ IsGet(log[i + 2])
                            /\ log[i + 2].attempt = 2
                            /\ log[i + 2].url = e.url
                            /\ log[i + 2].page = e.page
                       ELSE pc = "retry"
              /\ (IsGet(e) /\ e.attempt = 2) =>
                    /\ i > 2
                    /\ IsCooldown(log[i - 1])
                    /\ IsGet(log[i - 2]) /\ log[i - 2].attempt = 1
                    /\ log[i - 2].resp.kind # "ok" /\ log[i - 2].resp.status = 429
              /\ IsCooldown(e) =>
                    /\ i > 1
                    /\ IsGet(log[i - 1]) /\ log[i - 1].attempt = 1
                    /\ log[i - 1].resp.kind # "ok" /\ log[i - 1].resp.status = 429
              /\ (IsGet(e) /\ e.resp.kind # "ok" /\ (e.attempt = 2 \/ e.resp.status # 429)) =>
                    (i = Len(log) /\ pc \in {"fetched", "return"})
              /\ (IsGet(e) /\ e.attempt = 2 /\ e.resp.kind = "ok" /\ ~e.resp.text.blank
                    /\ i = Len(log) /\ pc = "while") =>
                    (url = get_next_page_url(e.resp.text) /\ page_num = e.page + 1)
              /\ (IsGet(e) /\ e.attempt = 2 /\ e.resp.kind = "ok" /\ ~e.resp.text.blank
                    /\ pc # "fetched") =>
                    Len(all_listings) >= Len(parse_listings(e.resp.text))
    /\ \A j \in LogIdx :
          IsGet(log[j]) =>
              Cardinality({ i \in LogIdx : IsGet(log[i]) /\ log[i].page = log[j].page }) <= 2

\* One page was recovered by its retry and the loop went on; a later page
\* answered 429 twice and the call returned.
C4_Witness ==
    /\ pc = "return"
    /\ \E i \in LogIdx :
          /\ IsGet(log[i]) /\ log[i].attempt = 2 /\ log[i].resp.kind = "ok"
          /\ i < Len(log)
          /\ parse_listings(log[i].resp.text) # <<>>
    /\ IsGet(log[Len(log)]) /\ log[Len(log)].attempt = 2
    /\ log[Len(log)].resp.status = 429

\* ------------------------------------------------------------------------
\* Properties of the dedup store
\* ------------------------------------------------------------------------
\* The physical key as the four fields it is made of, for a listing or a row.
KeyTuple(x) == <<x.address, x.unit_floor, x.layout, x.area>>

\* s is t with some elements left out, the order kept.
RECURSIVE IsSubsequence(_, _)
IsSubsequence(s, t) ==
    IF s = <<>> THEN TRUE
    ELSE IF t = <<>> THEN FALSE
    ELSE IF Head(s) = Head(t) THEN IsSubsequence(Tail(s), Tail(t))
    ELSE IsSubsequence(s, Tail(t))

\* C5: no listing returned by filter_new_listings has a listing_id that is in
\* the store, and none with a floor has the four key fields of a persisted
\* record with another listing_id.
C5_ReturnedListingsAreUnknown ==
    spc = "filtered" =>
        \A i \in DOMAIN new_listings :
            LET l == new_listings[i]
            IN  /\ l.listing_id \notin DOMAIN before
                /\ l.unit_floor # "" =>
                      \A id \in DOMAIN before :
                          id # l.listing_id => KeyTuple(before[id]) # KeyTuple(l)

\* A candidate that another agency's record already covers was dropped, and
\* another candidate of the same batch was returned.
C5_Witness ==
    /\ spc = "filtered"
    /\ new_listings # <<>>
    /\ \E i \in DOMAIN batch :
          /\ batch[i].unit_floor # ""
          /\ batch[i].listing_id \notin DOMAIN before
          /\ \E id \in DOMAIN before : KeyTuple(before[id]) = KeyTuple(batch[i])
          /\ batch[i] \notin Range(new_listings)

\* C6: within one call, of the candidates that have a floor and share a
\* physical key only the first in the batch can be returned, whatever
\* happened to that first one.
C6_OnlyFirstOccurrenceOfAKey ==
    spc = "filtered" =>
        \A i \in DOMAIN batch :
            batch[i].unit_floor # "" =>
                LET K == KeyTuple(batch[i])
                    first == CHOOSE a \in DOMAIN batch :
                                 /\ KeyTuple(batch[a]) = K
                                 /\ \A b \in 1..(a - 1) : KeyTuple(batch[b]) # K
                IN  \A j \in DOMAIN new_listings :
                        KeyTuple(new_listings[j]) = K => new_listings[j] = batch[first]

\* C7: a candidate without a floor is returned exactly when its listing_id is
\* not in the store; and a candidate with a floor that neither its
\* listing_id, nor a persisted record that has a floor, nor an earlier
\* candidate excludes is returned: a persisted record without a floor never
\* excludes a candidate by physical key.
C7_EmptyFloorNeverMatches ==
    spc = "filtered" =>
        \A i \in DOMAIN batch :
            LET l == batch[i]
            IN  /\ l.unit_floor = "" =>
                      (l \in Range(new_listings) <=> l.listing_id \notin DOMAIN before)
                /\ ( /\ l.unit_floor # ""
                     /\ l.listing_id \notin DOMAIN before
                     /\ \A id \in DOMAIN before :
                           before[id].unit_floor # "" => KeyTuple(before[id]) # KeyTuple(l)
                     /\ \A j \in 1..(i - 1) : KeyTuple(batch[j]) # KeyTuple(l) )
                      => l \in Range(new_listings)

\* C8: the result of filter_new_listings is a subsequence of the candidate
\* batch, and the call leaves the store as it was.
C8_ResultIsSubsequence ==
    /\ spc = "filtered" => (IsSubsequence(new_listings, batch) /\ table = before)
    /\ spc = "refiltered" => (IsSubsequence(again, new_listings) /\ table = before)

\* Two different candidates were returned from a store that holds records.
C8_Witness ==
    /\ spc = "filtered"
    /\ Len(new_listings) = 2
    /\ new_listings[1] # new_listings[2]
    /\ DOMAIN table # {}

\* C9: once save_listings(filter_new_listings(X)) is applied, filtering that
\* earlier result again returns the empty list.
C9_FilterAfterSaveIsEmpty == spc = "refiltered" => again = <<>>

\* The earlier result held two listings, one of them without a floor.
C9_Witness ==
    /\ spc = "refiltered"
    /\ Len(new_listings) >= 2
    /\ \E i \in DOMAIN new_listings : new_listings[i].unit_floor = ""

\* C10: with a non-empty id list, delete_expired_listings removes exactly the
\* records whose listing_id is not in the list, leaves the others as they
\* were and returns the number of records removed.
C10_DeleteExactlyTheAbsent ==
    (spc = "deleted" /\ batch # <<>>) =>
        LET current == { batch[i].listing_id : i \in DOMAIN batch }
        IN  /\ DOMAIN table = DOMAIN before \cap current
            /\ \A id \in DOMAIN table : table[id] = before[id]
            /\ ret = Cardinality(DOMAIN before \ current)

\* One record was removed and another was kept.
C10_Witness ==
    /\ spc = "deleted"
    /\ ret = 1
    /\ DOMAIN table # {}

\* C11: delete_expired_listings with an empty id list deletes nothing and
\* returns 0, and a run whose scrape gave no listing ends with the listings
\* table exactly as it was when the run began.
C11_EmptyScrapeLeavesTheTable ==
    /\ (rpc = "filter" /\ all_listings = <<>>) => (table = before /\ ret = 0)
    /\ (rpc \in {"finally", "done"} /\ listings_found = 0) => table = start

\* A run over a table with records scraped nothing and ended without error.
C11_Witness ==
    /\ rpc = "done"
    /\ all_listings = <<>>
    /\ error_msg = None
    /\ DOMAIN start # {}
    /\ table = start

\* C12: save_listings never touches a record that already exists (its
\* first_seen_at and notified_at included), and after a second save_listings
\* of the same batch the store holds one record for each listing_id of the
\* batch and is exactly what the first call left.
C12_SaveIsIdempotent ==
    /\ (spc \in {"stored", "stored_again"}) =>
           /\ \A id \in DOMAIN before :
                  id \in DOMAIN table /\ table[id] = before[id]
           /\ \A i \in DOMAIN batch : batch[i].listing_id \in DOMAIN table
    /\ (spc = "stored_again") => table = before

\* The batch was saved a second time at a later hour than a record of the
\* batch was first seen, and another record of the batch had been notified.
C12_Witness ==
    /\ spc = "stored_again"
    /\ Len(batch) >= 2
    /\ \E i \in DOMAIN batch : table[batch[i].listing_id].first_seen_at < clock
    /\ \E i \in DOMAIN batch : table[batch[i].listing_id].notified_at # NULL

\* C13: a run that has ended has appended exactly one record to run_log, the
\* one with its counts and its error, whichever way it left the try block.
C13_OneRunRecordPerRun ==
    (rpc = "done") =>
        run_log = Append(before_log, RunRecord(listings_found, new_count, error_msg))

\* C14: log_run never fails the run: when run has ended no exception has
\* left it and run_log has a record it did not have when the run began.
C14_LogRunNeverFailsTheRun ==
    (rpc = "done") => (~escaped /\ Len(run_log) > Len(before_log))

\* What a non-dry run whose notification is delivered leaves in the table.
persisted_when_delivered(t, listings, now) ==
    LET kept == delete_expired_listings(t, ListingIdsOf(listings)).table
        new == filter_new_listings(kept, listings).ret
        saved == save_listings(kept, new, now).table
    IN  mark_notified(saved, ListingIdsOf(new), now).table

\* The calls on the notifier's notify made by this run.
NotifyCalls == { i \in DOMAIN sink : sink[i].op = "notify" }

\* C15: however the delivery of the new listings ended, a non-dry run in
\* which no store operation failed leaves the table that the same run leaves
\* when every channel delivers.
C15_DeliveryDoesNotReachTheStore ==
    (/\ rpc = "finally"
     /\ ~dry_run
     /\ NotifyCalls # {}
     /\ (error_msg = None \/ \E i \in NotifyCalls : sink[i].outcome = "raised")) =>
        table = persisted_when_delivered(start, all_listings, clock)

\* C16: a fetched document without listing cards adds nothing to the result
\* and gives no next-page link, so the loop goes no further than that page.
C16_NoCardsNoNextPage ==
    [][(pc = "fetched" /\ HtmlTruthy(html) /\ html.cards = <<>>) =>
           (all_listings' = all_listings /\ url' = None)]_vars

\* C17: mark_notified(ids) sets notified_at to the hour of the call on the
\* records whose listing_id is in ids and on nothing else: the set of
\* records is unchanged, no other field changes and every other record is
\* as it was.
C17_MarkExactlyTheGiven ==
    (spc = "marked") =>
        LET ids == { batch[i].listing_id : i \in DOMAIN batch }
        IN  /\ DOMAIN table = DOMAIN before
            /\ \A id \in DOMAIN table :
                   IF id \in ids
                   THEN table[id] = [before[id] EXCEPT !.notified_at = clock]
                   ELSE table[id] = before[id]

\* One record was marked while another, never notified, was left alone.
C17_Witness ==
    /\ spc = "marked"
    /\ \E id \in DOMAIN table :
           /\ id \in { batch[i].listing_id : i \in DOMAIN batch }
           /\ before[id].notified_at = NULL
           /\ table[id].notified_at = clock
    /\ \E id \in DOMAIN table :
           /\ id \notin { batch[i].listing_id : i \in DOMAIN batch }
           /\ table[id].notified_at = NULL

\* C18: no store operation changes the physical_key of a record that stays
\* in the table: from its insertion to its deletion a listing_id keeps the
\* key it was inserted with.
C18_PhysicalKeyIsStable ==
    [][\A id \in DOMAIN table \cap DOMAIN table' :
           table'[id].physical_key = table[id].physical_key]_vars

\* A saved batch carried the listing_id of an existing record with another
\* address, floor, layout or area.
C18_Witness ==
    /\ spc = "stored"
    /\ \E i \in DOMAIN batch :
           /\ batch[i].listing_id \in DOMAIN before
           /\ before[batch[i].listing_id].physical_key # ""
           /\ physical_key(batch[i]) # before[batch[i].listing_id].physical_key

\* C19: a store operation that fails leaves the table, or run_log, as it was
\* when the operation began, whatever it had executed, and its caller gets
\* the exception: run's handler for save_listings, delete_expired_listings
\* and mark_notified, run's own caller for log_run.
C19_FailedOperationIsRolledBack ==
    /\ (rpc = "except") => (exc # None /\ table = before)
    /\ (rpc = "done" /\ escaped) => (run_log = before_log /\ table = before)
    /\ (rpc = "done" /\ run_log = before_log) => escaped

\* save_listings failed after the first of two rows.
C19_Witness ==
    /\ rpc = "except"
    /\ exc = "save"
    /\ applied = 1
    /\ Len(new_listings) = 2
    /\ new_listings[1].listing_id \notin DOMAIN table

\* What a dry run that gets through its steps leaves in the table.
persisted_by_dry_run(t, listings, now) ==
    LET kept == delete_expired_listings(t, ListingIdsOf(listings)).table
        new == filter_new_listings(kept, listings).ret
    IN  save_listings(kept, new, now).table

\* C20: a dry run calls nothing on the notifier and never reaches
\* mark_notified; it deletes, filters and saves as a run does, so the records
\* it inserts have notified_at NULL; and the run that follows a dry run
\* without error on the same scraped listings counts no new listing.
C20_DryRunOnlySuppressesTheSink ==
    /\ dry_run =>
          /\ sink = <<>>
          /\ rpc \notin {"notify", "mark"}
          /\ \A id \in DOMAIN table :
                 IF id \in DOMAIN start
                 THEN table[id] = start[id]
                 ELSE table[id].notified_at = NULL
    /\ (dry_run /\ rpc = "finally" /\ error_msg = None) =>
          table = persisted_by_dry_run(start, all_listings, clock)
    /\ (same /\ prev_dry_ok /\ rpc \notin {"idle", "fetch", "done"}) => new_count = 0

\* A dry run saved two listings and the run after it, not dry, scraped the
\* same two and ended with nothing new and nothing notified.
C20_Witness ==
    /\ rpc = "finally"
    /\ ~dry_run
    /\ same
    /\ prev_dry_ok
    /\ error_msg = None
    /\ Len(all_listings) = 2
    /\ Cardinality(DOMAIN table) = 2
    /\ \A id \in DOMAIN table :
           table[id].notified_at = NULL /\ table[id].first_seen_at < clock

\* A unit row whose detail link carries a jnc_ token or a non-empty bc
\* parameter, and the id such a row is known by.
HasId(row) == row.href.present /\ (row.href.jnc # "" \/ row.href.bc # "")
IdOf(row) == IF row.href.jnc # "" THEN row.href.jnc ELSE "bc_" \o row.href.bc

\* The ids of the rows of `rows` that have one, in order.
RECURSIVE IdsOfRows(_)
IdsOfRows(rows) ==
    IF rows = <<>> THEN <<>>
    ELSE (IF HasId(Head(rows)) THEN <<IdOf(Head(rows))>> ELSE <<>>) \o IdsOfRows(Tail(rows))

RECURSIVE IdsOfCards(_)
IdsOfCards(cards) ==
    IF cards = <<>> THEN <<>>
    ELSE IdsOfRows(Head(cards).rows) \o IdsOfCards(Tail(cards))

\* The ids of the rows with an id in the documents a history fetched.
RECURSIVE IdsOfHistory(_)
IdsOfHistory(history) ==
    IF history = <<>> THEN <<>>
    ELSE LET e == Head(history)
         IN  (IF IsGet(e) /\ e.resp.kind = "ok" THEN IdsOfCards(e.resp.text.cards) ELSE <<>>)
                 \o IdsOfHistory(Tail(history))

\* C21: every Listing the extraction produced has a listing_id that is
\* neither empty nor None, and the listings produced are, row for row and in
\* order, those of the rows whose link carries a jnc_ token or a non-empty bc
\* parameter: a row without id is left out and the rows around it are not.
C21_EveryListingHasAnId ==
    /\ \A i \in DOMAIN all_listings :
           all_listings[i].listing_id # "" /\ all_listings[i].listing_id # None
    /\ (pc \in {"while", "fetch", "retry", "return"}) =>
           [i \in DOMAIN all_listings |-> all_listings[i].listing_id] = IdsOfHistory(log)

\* The page with a row without link and a row without id gave the listing
\* of its third row, known by its bc parameter.
C21_Witness ==
    /\ pc = "return"
    /\ \E i \in LogIdx :
           /\ IsGet(log[i])
           /\ log[i].resp.kind = "ok"
           /\ \E c \in DOMAIN log[i].resp.text.cards :
                  \E r \in DOMAIN log[i].resp.text.cards[c].rows :
                      ~HasId(log[i].resp.text.cards[c].rows[r])
    /\ \E i \in DOMAIN all_listings : all_listings[i].listing_id = "bc_9"

\* The GETs of the history.
Gets == { i \in LogIdx : IsGet(log[i]) }

\* C22: fetch_all_listings returns, whatever max_pages and whatever the site
\* answers (a chain of next links that cycles or never ends, 429s, failed
\* fetches), and until it does it issues no more than two GETs for each of
\* max_pages pages.
C22_FetchTerminates ==
    /\ <>(pc = "return")
    /\ [](Cardinality(Gets) <= 2 * max_pages)

\* The call returned after a chain that came back to the page it began
\* with, still offered a next link, and answered 429 on the way.
C22_Witness ==
    /\ pc = "return"
    /\ Truthy(url)
    /\ \E i \in LogIdx : IsCooldown(log[i])
    /\ \E i, j \in Gets : log[i].page < log[j].page /\ log[i].url = log[j].url

\* The ids run scraped.
ScrapedIds == { all_listings[i].listing_id : i \in DOMAIN all_listings }

\* Whether `result` holds a listing with this id.
ReturnedAsNew(id, result) == \E k \in DOMAIN result : result[k].listing_id = id

\* No record of another id carries the key of l, l having a floor.
NoPersistedTwin(l, t) ==
    ~\E id \in DOMAIN t :
        /\ id # l.listing_id
        /\ l.unit_floor # ""
        /\ t[id].physical_key = physical_key(l)

\* No candidate before the i-th, of another id and returned itself, carries
\* the key of the i-th, the i-th having a floor.
NoEarlierTwin(i, listings, result) ==
    ~\E j \in 1..(i - 1) :
        /\ listings[j].listing_id # listings[i].listing_id
        /\ listings[i].unit_floor # ""
        /\ physical_key(listings[j]) = physical_key(listings[i])
        /\ \E k \in DOMAIN result : result[k] = listings[j]

\* A delete_expired_listings of run that succeeds on a non-empty scrape
\* removes every record whose id was not scraped.
DelistedIsDeleted ==
    (rpc = "delete" /\ rpc' = "filter" /\ all_listings # <<>>) =>
        \A id \in DOMAIN table : id \notin ScrapedIds => id \notin DOMAIN table'

\* C23 as stated: a delisted record is deleted in the run that does not
\* scrape its id, and when the id is scraped again in a later run
\* filter_new_listings returns it as new, unless a record of another id
\* carries the same physical key with a floor.
C23_DelistedIsNewAgain ==
    [][/\ DelistedIsDeleted
       /\ (rpc = "filter" /\ rpc' # "except") =>
             \A i \in DOMAIN all_listings :
                 (/\ all_listings[i].listing_id \in delisted
                  /\ NoPersistedTwin(all_listings[i], table)) =>
                     ReturnedAsNew(all_listings[i].listing_id, new_listings')]_rpc

\* C23 amended: the same, unless also an earlier candidate of the same
\* scrape, of another id and returned as new, carries that key: the first
\* occurrence of a key in the batch wins.
C23_DelistedIsNewAgainUnlessShadowed ==
    [][/\ DelistedIsDeleted
       /\ (rpc = "filter" /\ rpc' # "except") =>
             \A i \in DOMAIN all_listings :
                 (/\ all_listings[i].listing_id \in delisted
                  /\ NoPersistedTwin(all_listings[i], table)
                  /\ NoEarlierTwin(i, all_listings, new_listings')) =>
                     ReturnedAsNew(all_listings[i].listing_id, new_listings')]_rpc

\* An id whose record an earlier run deleted was scraped again and returned
\* as new, next to a record that stayed.
C23_Witness ==
    /\ rpc = "notify"
    /\ \E k \in DOMAIN new_listings : new_listings[k].listing_id \in delisted
    /\ DOMAIN table # {}

\* The ids the site advertises.
SiteIds == { site[i].listing_id : i \in DOMAIN site }

\* C24: over runs against a site that goes on advertising the same
\* listings, dry or not, with fetches that stop early and notifications that
\* fail, filter_new_listings returns a listing as new in one run at most.
C24_NewInAtMostOneRun ==
    \A id \in SiteIds : times_new[id] <= 1

\* C25: whatever the table and the candidates, the list filter_new_listings
\* returns holds no listing_id twice.
C25_NoIdTwiceInResult ==
    (spc = "filtered") =>
        \A i, j \in DOMAIN new_listings :
            i # j => new_listings[i].listing_id # new_listings[j].listing_id

\* C26: whatever runs there have been, no two records with a floor carry
\* the same address, floor, layout and area.
C26_OneRecordPerUnit ==
    \A a, b \in DOMAIN table :
        (a # b /\ table[a].unit_floor # "" /\ table[b].unit_floor # "") =>
            KeyTuple(table[a]) # KeyTuple(table[b])

\* A run scraped one unit with a floor under two ids, one of which had a
\* record, and ended without error with that one record.
C26_Witness ==
    /\ rpc = "finally"
    /\ error_msg = None
    /\ Cardinality(DOMAIN start) = 1
    /\ DOMAIN table = DOMAIN start
    /\ \E i, j \in DOMAIN all_listings :
           /\ all_listings[i].listing_id \in DOMAIN table
           /\ all_listings[j].listing_id \notin DOMAIN table
           /\ all_listings[i].unit_floor # ""
           /\ KeyTuple(all_listings[i]) = KeyTuple(all_listings[j])
           /\ KeyTuple(table[all_listings[i].listing_id]) = KeyTuple(all_listings[j])

====
